---- MODULE Spec2Model ----
(***************************************************************************)
(* Incremental planar Voronoi diagram of libefgy                           *)
(* (include/ef.gy/voronoi.h, efgy::geometry::voronoi<S,boundingBoxSize>).  *)
(*                                                                         *)
(* Scalars are exact rationals.  A vector is a triple <<x, y, d>> that     *)
(* stands for the point (x/d, y/d), d > 0, in lowest terms.  A polygon     *)
(* area is a sequence of convex pieces, every piece a counter-clockwise    *)
(* sequence of vectors; the area is the union of its pieces.               *)
(*                                                                         *)
(* geometry.h and set.h (polygon, line, the clip operator /, the           *)
(* containment operator &&, math::set) are not part of the sources at      *)
(* hand: those operators follow the collaborator contracts of the          *)
(* specification, section 6.                                               *)
(***************************************************************************)
EXTENDS Integers, Sequences, FiniteSets, TLC

\* template parameter of voronoi: half-width of the bootstrap square
boundingBoxSize == 1000

\* number of insert calls explored from the empty diagram
MaxInserts == 3

\* number of insert calls explored on the collinear site set
MaxLineInserts == 5

\* sites offered to insert (integer coordinates)
Sites ==
    { <<-10, 0, 1>>, <<10, 0, 1>>, <<0, 0, 1>>, <<100, 0, 1>>,
      <<0, 100, 1>>, <<1050, 0, 1>> }

\* collinear sites, for long runs
LineSites == { <<-10, 0, 1>>, <<10, 0, 1>>, <<0, 0, 1>>, <<2, 0, 1>> }

\* colour::HSLA<base>::value(), the default colour, and one other payload
DefaultColour == "none"

Colours == { DefaultColour, "red" }

NoVector == <<0, 0, 1>>

----------------------------------------------------------------------------
(* scalar and vector arithmetic *)

Abs(x) == IF x < 0 THEN -x ELSE x

Sign(x) == IF x < 0 THEN -1 ELSE IF x > 0 THEN 1 ELSE 0

RECURSIVE GCD(_, _)
GCD(a, b) ==
    IF b = 0 THEN a
    ELSE CHOOSE g \in { GCD(y, x % y) : x \in { a }, y \in { b } } : TRUE

\* the vector (x/d, y/d), d > 0, in lowest terms
Vec(x, y, d) ==
    LET g == GCD(GCD(Abs(x), Abs(y)), d)
    IN  << x \div g, y \div g, d \div g >>

VAdd(a, b) == Vec(a[1] * b[3] + b[1] * a[3], a[2] * b[3] + b[2] * a[3], a[3] * b[3])

VSub(a, b) == Vec(a[1] * b[3] - b[1] * a[3], a[2] * b[3] - b[2] * a[3], a[3] * b[3])

\* line<S>(a, b).midpoint()
midpoint(a, b) ==
    Vec(a[1] * b[3] + b[1] * a[3], a[2] * b[3] + b[2] * a[3], 2 * a[3] * b[3])

\* euclidian::getPerpendicular: d turned by a quarter
getPerpendicular(d) == << d[2], -d[1], d[3] >>

\* the line through b0 and b1 as <<A, B, C>>: a point w = (x/d, y/d) is on
\* the left of b0 -> b1 iff A*x + B*y - C*d > 0; <<0,0,0>> when b0 = b1
LineThrough(b0, b1) ==
    LET Dx == b1[1] * b0[3] - b0[1] * b1[3]
        Dy == b1[2] * b0[3] - b0[2] * b1[3]
        g  == GCD(Abs(Dx), Abs(Dy))
    IN  IF g = 0 THEN << 0, 0, 0 >>
        ELSE LET A  == -(Dy \div g)
                 B  == Dx \div g
                 cn == A * b0[1] + B * b0[2]
                 h  == GCD(GCD(Abs(A * b0[3]), Abs(B * b0[3])), Abs(cn))
             IN  << (A * b0[3]) \div h, (B * b0[3]) \div h, cn \div h >>

Side(L, w) == L[1] * w[1] + L[2] * w[2] - L[3] * w[3]

\* the point where the segment a-b crosses the line L, Side(L,a) and
\* Side(L,b) being of opposite sign
Crossing(L, a, b) ==
    LET fa0 == Side(L, a)
        fb0 == Side(L, b)
        g   == GCD(Abs(fa0), Abs(fb0))
        fa  == fa0 \div g
        fb  == fb0 \div g
        den == fb * a[3] - fa * b[3]
        s   == Sign(den)
    IN  Vec(s * (a[1] * fb - b[1] * fa), s * (a[2] * fb - b[2] * fa), s * den)

Next1(i, n) == IF i = n THEN 1 ELSE i + 1

----------------------------------------------------------------------------
(* polygons: containment, clip, union *)

\* a convex piece contains q, boundary included
PieceContains(P, q) ==
    /\ Len(P) >= 3
    /\ \A i \in 1..Len(P) : Side(LineThrough(P[i], P[Next1(i, Len(P))]), q) >= 0

\* polygon && vector
Contains(area, q) == \E i \in 1..Len(area) : PieceContains(area[i], q)

\* the vertices of piece P on one side of L (keep = 1: left, keep = -1:
\* right, keep = 0: on the line), from vertex i on, in boundary order, with
\* the points where the boundary crosses L
RECURSIVE ClipWalk(_, _, _, _)
ClipWalk(P, L, keep, i) ==
    IF i > Len(P) THEN << >>
    ELSE LET a  == P[i]
             b  == P[Next1(i, Len(P))]
             sa == Sign(Side(L, a))
             sb == Sign(Side(L, b))
         IN  (IF sa = 0 \/ sa = keep THEN << a >> ELSE << >>)
             \o (IF sa * sb = -1 THEN << Crossing(L, a, b) >> ELSE << >>)
             \o ClipWalk(P, L, keep, i + 1)

\* a side of a piece exists when it has an area greater than zero
PieceHasSide(P, L, keep) == \E i \in 1..Len(P) : Sign(Side(L, P[i])) = keep

RECURSIVE ClipSide(_, _, _, _)
ClipSide(area, L, keep, i) ==
    IF i > Len(area) THEN << >>
    ELSE (IF PieceHasSide(area[i], L, keep)
          THEN << ClipWalk(area[i], L, keep, 1) >> ELSE << >>)
         \o ClipSide(area, L, keep, i + 1)

RECURSIVE ClipRemainder(_, _, _)
ClipRemainder(area, L, i) ==
    IF i > Len(area) THEN << >>
    ELSE ClipWalk(area[i], L, 0, 1) \o ClipRemainder(area, L, i + 1)

\* polygon / ngon<S,2>: rd[0] is field a (left of b[1] -> b[2]), rd[1] is
\* field b, rd[2] is field c, the boundary points on the clip line; a side
\* without area is nothing, here the empty sequence
PolyClip(area, b) ==
    CHOOSE rd \in { [ a |-> ClipSide(area, L, 1, 1),
                      b |-> ClipSide(area, L, -1, 1),
                      c |-> ClipRemainder(area, L, 1) ] :
                        L \in { LineThrough(e[1], e[2]) : e \in { b } } } : TRUE

\* maybe<polygon> as bool
Just(m) == m # << >>

\* polygon + polygon
PolyUnion(p1, p2) == p1 \o p2

\* polygon + vector
PolyAddPoint(points, x) == Append(points, x)

\* the loop that adds the vertices rF.data[j], j on, to the worklist
RECURSIVE AddPoints(_, _, _)
AddPoints(points, rF, j) ==
    IF j > Len(rF) THEN points
    ELSE AddPoints(PolyAddPoint(points, rF[j]), rF, j + 1)

\* polygon - vector
PolyRemovePoint(points, x) == SelectSeq(points, LAMBDA y : y # x)

\* math::set<cell> + cell: cells are equal iff their sites are equal
SetAdd(cs, c) ==
    IF \E i \in 1..Len(cs) : cs[i].site = c.site THEN cs ELSE Append(cs, c)

----------------------------------------------------------------------------
(* generators::mask::cube<depth>::faces *)

MaxCubeDepth == 5
MaxCubeCalls == 2

\* the instantiations cube<depth> of the general template (cube<2> is a
\* specialisation of its own)
CubeDepths == 3..MaxCubeDepth

\* std::array<bool, depth> with true at the 0-based positions in S
MaskVector(depth, S) == [ j \in 1..depth |-> (j - 1) \in S ]

\* operator < of std::array<bool, depth>: lexicographic, false < true
VectorLess(a, b) ==
    \E i \in 1..Len(a) :
        /\ (\A j \in 1..(i - 1) : a[j] = b[j])
        /\ ~ a[i]
        /\ b[i]

\* operator < of std::array<vector, 4>, the order of std::set<face>
FaceLess(f, g) ==
    \E k \in 1..4 :
        /\ (\A j \in 1..(k - 1) : f[j] = g[j])
        /\ VectorLess(f[k], g[k])

\* the face the static set is initialised with
InitialFace(depth) ==
    << MaskVector(depth, {}), MaskVector(depth, { 1 }),
       MaskVector(depth, { 0, 1 }), MaskVector(depth, { 0 }) >>

\* n[..][i] = true: position i (0-based) of the vector set
SetBit(a, i) == [ a EXCEPT ![i + 1] = TRUE ]

\* variant: the ends of the edge are taken as the face gives them
SideFace_AsGiven(fa, j, i) ==
    LET la == fa[j]
        lb == fa[(j % 4) + 1]
    IN  << la, lb, SetBit(lb, i), SetBit(la, i) >>

\* the face n built on the edge j (1-based) of fa in direction i
SideFace(fa, j, i) ==
    LET la == fa[j]
        lb == fa[(j % 4) + 1]
        ma == IF VectorLess(la, lb) THEN la ELSE lb
        mb == IF VectorLess(la, lb) THEN lb ELSE la
    IN  << ma, mb, SetBit(mb, i), SetBit(ma, i) >>

\* the face x: fa moved in direction i, with the winding reversed
ShiftedFace(fa, i) ==
    << SetBit(fa[4], i), SetBit(fa[3], i), SetBit(fa[2], i), SetBit(fa[1], i) >>

\* cube<depth>::size()
CubeSize(depth) == (2 ^ (depth - 3)) * (depth - 1) * depth

VARIABLES
    cubeFaces,    \* per depth: the function-local static set faces
    cubePc,       \* "idle": no call of faces() in progress; "loop": in the loops
    cubeDepth,    \* the depth of the call in progress
    cubeI,        \* the loop variable i
    cubeTodo,     \* the faces the inner for loop has still to visit
    cubeNew,      \* newFaces
    cubeRet,      \* history: per depth, the set the last call returned
    cubeFirst,    \* history: per depth, the set the first call returned
    cubeCalls     \* history: per depth, the number of calls that returned

cubeVars == << cubeFaces, cubePc, cubeDepth, cubeI, cubeTodo, cubeNew,
               cubeRet, cubeFirst, cubeCalls >>

InitCube ==
    /\ cubeFaces = [ d \in CubeDepths |-> { InitialFace(d) } ]
    /\ cubePc = "idle"
    /\ cubeDepth = 0
    /\ cubeI = 0
    /\ cubeTodo = {}
    /\ cubeNew = {}
    /\ cubeRet = [ d \in CubeDepths |-> {} ]
    /\ cubeFirst = [ d \in CubeDepths |-> {} ]
    /\ cubeCalls = [ d \in CubeDepths |-> 0 ]

----------------------------------------------------------------------------
(* cli::options, cli::option, cli::hint *)

MaxObjects == 2
MaxCliCalls == 4
MaxArgs == 3
MaxApplyCalls == 2

\* the places in memory an option or a hint can be constructed at
Addresses == 1..MaxObjects

\* options::common() and one more options object
Instances == { "common", "other" }

\* the options the walks construct, by their regular expression
OptionKinds == { "a", "dash", "quiet" }

\* the arguments the walks pass to apply
ArgStrings == { "--", "-a", "x" }

ArgVectors == UNION { [ 1..n -> ArgStrings ] : n \in 0..MaxArgs }

\* std::regex_match(arg, matches, opt->match) for the three options:
\* "-a", "-.*" and ".*"
RegexMatch(kind, arg) ==
    CASE kind = "a"     -> arg = "-a"
      [] kind = "dash"  -> arg \in { "--", "-a" }
      [] kind = "quiet" -> TRUE

\* opt->handler(matches): the first two handlers return true, the third false
Handler(kind) == kind # "quiet"

\* variant: insert keeps a pointer that the set already holds a second time
SetInsert_Multi(set, a) ==
    SelectSeq(set, LAMBDA x : x < a) \o << a >> \o SelectSeq(set, LAMBDA x : x >= a)

\* std::set<T *>::insert: the pointers in rising order, each held once
SetInsert(set, a) ==
    IF \E i \in 1..Len(set) : set[i] = a
    THEN set
    ELSE SelectSeq(set, LAMBDA x : x < a) \o << a >> \o SelectSeq(set, LAMBDA x : x > a)

\* std::set<T *>::erase
SetErase(set, a) == SelectSeq(set, LAMBDA x : x # a)

VARIABLES
    opts,         \* per options object: the member opts, in iteration order
    hints,        \* per options object: the member hints, in iteration order
    optionAt,     \* per address: the options object of the option alive there, or "none"
    optionKind,   \* per address: the regular expression of the option alive there
    hintAt,       \* per address: the options object of the hint alive there, or "none"
    cliCalls,     \* history: constructions, destructions and calls of add/remove so far
    cliLast,      \* history: the last of them
    cliBefore,    \* history: opts and hints before the last of them
    remainder,    \* the member remainder of options::common()
    applyPc,      \* "idle": no call of apply in progress; "loop": in the for loop
    args,         \* the argument of the call of apply in progress
    argPos,       \* the position in args the for loop is at (1-based)
    applyR,       \* the local r
    doneWithArgs, \* the local doneWithArgs
    firstArg,     \* the local firstArg
    invoked,      \* history: the handlers the call invoked: << position, address, result >>
    pushedFrom,   \* history: the positions in args of the elements of remainder
    usageShown,   \* history: the call printed the usage text
    applyRet,     \* history: the value the last call returned
    applyCalls    \* history: the number of calls that returned

registryVars == << opts, hints, optionAt, optionKind, hintAt, cliCalls, cliLast,
                   cliBefore >>

applyVars == << remainder, applyPc, args, argPos, applyR, doneWithArgs, firstArg,
                invoked, pushedFrom, usageShown, applyRet, applyCalls >>

cliVars == << registryVars, applyVars >>

InitCli ==
    /\ opts = [ i \in Instances |-> << >> ]
    /\ hints = [ i \in Instances |-> << >> ]
    /\ optionAt = [ a \in Addresses |-> "none" ]
    /\ optionKind = [ a \in Addresses |-> "none" ]
    /\ hintAt = [ a \in Addresses |-> "none" ]
    /\ cliCalls = 0
    /\ cliLast = "none"
    /\ cliBefore = << opts, hints >>
    /\ remainder = << >>
    /\ applyPc = "idle"
    /\ args = << >>
    /\ argPos = 0
    /\ applyR = 0
    /\ doneWithArgs = FALSE
    /\ firstArg = TRUE
    /\ invoked = << >>
    /\ pushedFrom = << >>
    /\ usageShown = FALSE
    /\ applyRet = 0
    /\ applyCalls = 0

----------------------------------------------------------------------------
(* geometry::ifs::ifsIterator *)

MaxFunctions == 3
MaxIterations == 3
MaxFaces == 2
MaxEndIncrements == 2

\* iteration after the constructor: parameter.iterations zeros
ZeroTuple(k) == [ i \in 1..k |-> 0 ]

\* isEnd(): iteration[0] >= functions.size()
isEnd(it, n) == it[1] >= n

\* variant: only the last index is counted up
Advance_LastOnly(it, rep, n) ==
    IF it[rep] < n THEN [ it EXCEPT ![rep] = @ + 1 ] ELSE it

\* the for loop of operator ++ from the index rep (1-based) down to the
\* first: count the index up, stop when it is still below n, else set it
\* back to 0 unless it is the first
RECURSIVE Advance(_, _, _)
Advance(it, rep, n) ==
    IF rep < 1 THEN it
    ELSE LET up == IF it[rep] < n THEN [ it EXCEPT ![rep] = @ + 1 ] ELSE it
         IN  IF up[rep] < n THEN up
             ELSE IF rep > 1 THEN Advance([ up EXCEPT ![rep] = 0 ], rep - 1, n)
             ELSE Advance(up, rep - 1, n)

\* operator == (const ifsIterator &): a and b are records of iteration,
\* basePosition and the number of functions
IteratorEquals(a, b) ==
    \/ isEnd(a.iteration, a.n) /\ isEnd(b.iteration, b.n)
    \/ a.iteration = b.iteration /\ a.basePosition = b.basePosition

\* ifsIterator::end(pParameter, pFunctions) for n functions, k iterations
\* and a base of f faces; positions of the base run from 0, f is base.end()
EndIterator(n, k, f) ==
    [ iteration |-> [ ZeroTuple(k) EXCEPT ![1] = n ], basePosition |-> f, n |-> n ]

VARIABLES
    ifsPc,        \* "none": no iterator yet; "live": the iterator begin() returned
    functions,    \* functions.size()
    baseFaces,    \* the number of faces of base
    iteration,    \* the member iteration
    basePosition, \* the member basePosition, as a position in base
    increments,   \* history: the calls of operator ++ so far
    visited       \* history: the pairs of iteration and basePosition seen before the end

ifsVars == << ifsPc, functions, baseFaces, iteration, basePosition, increments,
              visited >>

InitIfs ==
    /\ ifsPc = "none"
    /\ functions = 0
    /\ baseFaces = 0
    /\ iteration = << >>
    /\ basePosition = 0
    /\ increments = 0
    /\ visited = {}

----------------------------------------------------------------------------
(* the state of the components other than the diagram *)

elsewhere == << cubeVars, cliVars, ifsVars >>

InitElsewhere == InitCube /\ InitCli /\ InitIfs

----------------------------------------------------------------------------
(* the diagram and operator + *)

VARIABLES
    cells,        \* cells.data of the caller's diagram (the receiver *this)
    pc,           \* "idle": no call in progress; "cascade": in the while loop
    r,            \* r.cells.data, the copy operator + works on
    v,            \* c.site of the call in progress
    colour,       \* c.colour of the call in progress
    nearestCell,  \* index of the located cell (1-based, 0: none)
    newCell,      \* the growing area of the new cell
    rC,           \* the worklist of boundary points
    usedCells,    \* indices of the cells marked used
    reclipped,    \* history: cells whose area the cascade of the last call assigned
    outcome,      \* history: how the last call went
    prev,         \* history: the receiver of the last call
    via,          \* history: the overload the last call came through
    log           \* history: the sites passed to operator +, in call order

diagram == << cells, pc, r, v, colour, nearestCell, newCell, rC, usedCells,
              reclipped, outcome, prev, via, log >>

vars == << diagram, elsewhere >>

\* voronoi::cell (site, area, colour)
cell(pSite, pArea, pColour) == [ site |-> pSite, area |-> pArea, colour |-> pColour ]

\* variant: the bisector is laid through v instead of the midpoint
perpendicularBisector_AtV(pv, u) ==
    LET d == VSub(pv, u)
        p == getPerpendicular(d)
    IN  << VAdd(pv, p), VSub(pv, p) >>

\* the bisector of v and u as a 2-gon of two points
perpendicularBisector(pv, u) ==
    LET d == VSub(pv, u)
        m == midpoint(pv, u)
        p == getPerpendicular(d)
    IN  << VAdd(m, p), VSub(m, p) >>

\* variant: the square has twice the half-width
BootstrapSquare_Double(pv) ==
    LET b == 2 * boundingBoxSize * pv[3]
    IN  << << Vec(pv[1] - b, pv[2] - b, pv[3]), Vec(pv[1] + b, pv[2] - b, pv[3]),
              Vec(pv[1] + b, pv[2] + b, pv[3]), Vec(pv[1] - b, pv[2] + b, pv[3]) >> >>

\* variant: the square is laid around the origin instead of v
BootstrapSquare_Origin(pv) ==
    LET b == boundingBoxSize
    IN  << << << -b, -b, 1 >>, << b, -b, 1 >>, << b, b, 1 >>, << -b, b, 1 >> >> >>

\* the bootstrap square around v, as an area of one piece
BootstrapSquare(pv) ==
    LET b == boundingBoxSize * pv[3]
    IN  << << Vec(pv[1] - b, pv[2] - b, pv[3]), Vec(pv[1] + b, pv[2] - b, pv[3]),
              Vec(pv[1] + b, pv[2] + b, pv[3]), Vec(pv[1] - b, pv[2] + b, pv[3]) >> >>

\* variant: the loop goes on to the last cell that contains pv
LocateFrom_Last(cs, pv, i) ==
    IF \E j \in i..Len(cs) : Contains(cs[j].area, pv)
    THEN CHOOSE j \in i..Len(cs) :
            /\ Contains(cs[j].area, pv)
            /\ \A k \in (j + 1)..Len(cs) : ~ Contains(cs[k].area, pv)
    ELSE Len(cs)

\* the point location loop: the index at which the loop stops
RECURSIVE LocateFrom(_, _, _)
LocateFrom(cs, pv, i) ==
    IF i > Len(cs) THEN Len(cs)
    ELSE IF Contains(cs[i].area, pv) THEN i
    ELSE LocateFrom(cs, pv, i + 1)

Locate(cs, pv) == LocateFrom(cs, pv, 1)

HaveMatch(cs, pv) == \E i \in 1..Len(cs) : Contains(cs[i].area, pv)

Init ==
    /\ cells = << >>
    /\ pc = "idle"
    /\ r = << >>
    /\ v = NoVector
    /\ colour = DefaultColour
    /\ nearestCell = 0
    /\ newCell = << >>
    /\ rC = << >>
    /\ usedCells = {}
    /\ reclipped = {}
    /\ outcome = "none"
    /\ prev = << >>
    /\ via = "none"
    /\ log = << >>
    /\ InitElsewhere

\* operator + returns the diagram ret to its caller
Return(ret, how) ==
    /\ cells' = ret
    /\ pc' = "idle"
    /\ r' = << >>
    /\ v' = NoVector
    /\ colour' = DefaultColour
    /\ nearestCell' = 0
    /\ newCell' = << >>
    /\ rC' = << >>
    /\ usedCells' = {}
    /\ outcome' = how

\* variant: the split works on the receiver instead of on the copy r
Split_InPlace(pv, pColour, nc) ==
    LET nearest == cells[nc].site
        rd == PolyClip(cells[nc].area, perpendicularBisector(pv, nearest))
        rA == rd.a
        rB == rd.b
        Begin(kept, other) ==
            /\ r' = [ cells EXCEPT ![nc].area = kept ]
            /\ cells' = [ cells EXCEPT ![nc].area = kept ]
            /\ newCell' = other
            /\ rC' = rd.c
            /\ usedCells' = { nc }
            /\ nearestCell' = nc
            /\ v' = pv
            /\ colour' = pColour
            /\ pc' = "cascade"
            /\ outcome' = "split"
    IN  IF Just(rA) /\ Just(rB)
        THEN IF Contains(rA, nearest) THEN Begin(rA, rB)
             ELSE IF Contains(rB, nearest) THEN Begin(rB, rA)
             ELSE Return(SetAdd(cells, cell(pv, rB, pColour)), "degenerate")
        ELSE Return(cells, "noclip")

\* variant: when neither side holds the site of the located cell the call
\* returns the diagram as it was
Split_DegenerateDrops(pv, pColour, nc) ==
    LET nearest == cells[nc].site
        rd == PolyClip(cells[nc].area, perpendicularBisector(pv, nearest))
        rA == rd.a
        rB == rd.b
        Begin(kept, other) ==
            /\ r' = [ cells EXCEPT ![nc].area = kept ]
            /\ newCell' = other
            /\ rC' = rd.c
            /\ usedCells' = { nc }
            /\ nearestCell' = nc
            /\ v' = pv
            /\ colour' = pColour
            /\ pc' = "cascade"
            /\ outcome' = "split"
            /\ UNCHANGED cells
    IN  IF Just(rA) /\ Just(rB)
        THEN IF Contains(rA, nearest) THEN Begin(rA, rB)
             ELSE IF Contains(rB, nearest) THEN Begin(rB, rA)
             ELSE Return(cells, "degenerate")
        ELSE Return(cells, "noclip")

\* variant: the located cell is given the side away from its site
Split_SwapsSides(pv, pColour, nc) ==
    LET nearest == cells[nc].site
        rd == PolyClip(cells[nc].area, perpendicularBisector(pv, nearest))
        rA == rd.a
        rB == rd.b
        Begin(kept, other) ==
            /\ r' = [ cells EXCEPT ![nc].area = kept ]
            /\ newCell' = other
            /\ rC' = rd.c
            /\ usedCells' = { nc }
            /\ nearestCell' = nc
            /\ v' = pv
            /\ colour' = pColour
            /\ pc' = "cascade"
            /\ outcome' = "split"
            /\ UNCHANGED cells
    IN  IF Just(rA) /\ Just(rB)
        THEN IF Contains(rA, nearest) THEN Begin(rB, rA)
             ELSE IF Contains(rB, nearest) THEN Begin(rA, rB)
             ELSE Return(SetAdd(cells, cell(pv, rB, pColour)), "degenerate")
        ELSE Return(cells, "noclip")

\* variant: the used set starts empty
Split_ForgetsUsed(pv, pColour, nc) ==
    LET nearest == cells[nc].site
        rd == PolyClip(cells[nc].area, perpendicularBisector(pv, nearest))
        rA == rd.a
        rB == rd.b
        Begin(kept, other) ==
            /\ r' = [ cells EXCEPT ![nc].area = kept ]
            /\ newCell' = other
            /\ rC' = rd.c
            /\ usedCells' = {}
            /\ nearestCell' = nc
            /\ v' = pv
            /\ colour' = pColour
            /\ pc' = "cascade"
            /\ outcome' = "split"
            /\ UNCHANGED cells
    IN  IF Just(rA) /\ Just(rB)
        THEN IF Contains(rA, nearest) THEN Begin(rA, rB)
             ELSE IF Contains(rB, nearest) THEN Begin(rB, rA)
             ELSE Return(SetAdd(cells, cell(pv, rB, pColour)), "degenerate")
        ELSE Return(cells, "noclip")

\* variant: when the clip does not yield two sides, v is given the whole area
\* of the located cell
Split_NoClipAdds(pv, pColour, nc) ==
    LET nearest == cells[nc].site
        rd == PolyClip(cells[nc].area, perpendicularBisector(pv, nearest))
        rA == rd.a
        rB == rd.b
        Begin(kept, other) ==
            /\ r' = [ cells EXCEPT ![nc].area = kept ]
            /\ newCell' = other
            /\ rC' = rd.c
            /\ usedCells' = { nc }
            /\ nearestCell' = nc
            /\ v' = pv
            /\ colour' = pColour
            /\ pc' = "cascade"
            /\ outcome' = "split"
            /\ UNCHANGED cells
    IN  IF Just(rA) /\ Just(rB)
        THEN IF Contains(rA, nearest) THEN Begin(rA, rB)
             ELSE IF Contains(rB, nearest) THEN Begin(rB, rA)
             ELSE Return(SetAdd(cells, cell(pv, rB, pColour)), "degenerate")
        ELSE Return(SetAdd(cells, cell(pv, cells[nc].area, pColour)), "noclip")

\* the bisection of the located cell nc, from the assignment of nearest to
\* the start of the while loop or the return
Split(pv, pColour, nc) ==
    LET nearest == cells[nc].site
        rd == PolyClip(cells[nc].area, perpendicularBisector(pv, nearest))
        rA == rd.a
        rB == rd.b
        Begin(kept, other) ==
            /\ r' = [ cells EXCEPT ![nc].area = kept ]
            /\ newCell' = other
            /\ rC' = rd.c
            /\ usedCells' = { nc }
            /\ nearestCell' = nc
            /\ v' = pv
            /\ colour' = pColour
            /\ pc' = "cascade"
            /\ outcome' = "split"
            /\ UNCHANGED cells
    IN  IF Just(rA) /\ Just(rB)
        THEN IF Contains(rA, nearest) THEN Begin(rA, rB)
             ELSE IF Contains(rB, nearest) THEN Begin(rB, rA)
             ELSE Return(SetAdd(cells, cell(pv, rB, pColour)), "degenerate")
        ELSE Return(cells, "noclip")

\* variant: a site that no cell contains is added with a square of its own
Call_NoMatchAdds(pv, pColour) ==
    /\ pc = "idle"
    /\ log' = Append(log, pv)
    /\ prev' = cells
    /\ reclipped' = {}
    /\ UNCHANGED elsewhere
    /\ IF Len(cells) > 0 /\ HaveMatch(cells, pv)
       THEN Split(pv, pColour, Locate(cells, pv))
       ELSE Return(SetAdd(cells, cell(pv, BootstrapSquare(pv), pColour)), "bootstrap")

\* a call of operator + (const cell &) with the cell (pv, pColour), up to
\* its return or to the start of the while loop
Call(pv, pColour) ==
    /\ pc = "idle"
    /\ log' = Append(log, pv)
    /\ prev' = cells
    /\ reclipped' = {}
    /\ UNCHANGED elsewhere
    /\ IF Len(cells) > 0
       THEN IF ~ HaveMatch(cells, pv)
            THEN Return(cells, "nomatch")
            ELSE Split(pv, pColour, Locate(cells, pv))
       ELSE Return(SetAdd(cells, cell(pv, BootstrapSquare(pv), pColour)), "bootstrap")

Insert(pv, pColour) ==
    /\ Len(log) < MaxInserts
    /\ Call(pv, pColour)
    /\ via' = "cell"

\* variant: the bare site is given a colour of its own
InsertVector_Red(pv) ==
    /\ Len(log) < MaxInserts
    /\ Call(pv, "red")
    /\ via' = "vector"

\* a call of operator + (const vector &): the site is wrapped into a cell
\* with the default colour and passed on
InsertVector(pv) ==
    /\ Len(log) < MaxInserts
    /\ Call(pv, DefaultColour)
    /\ via' = "vector"

\* variant: the piece cut off cell k is not added to the new cell
Visit_DropsPiece(st, pv, q, k) ==
    IF ~ Contains(st.r[k].area, q) THEN st
    ELSE LET u   == st.r[k].site
             rd  == PolyClip(st.r[k].area, perpendicularBisector(pv, u))
             rD  == rd.a
             rE  == rd.b
             rF  == rd.c
             st1 == [ st EXCEPT !.usedCells = @ \cup { k } ]
         IN  IF Just(rD) /\ Just(rE)
             THEN LET st2 ==
                          IF Contains(rD, u)
                          THEN [ st1 EXCEPT !.r[k].area = rD,
                                            !.reclipped = @ \cup { k } ]
                          ELSE IF Contains(rE, u)
                          THEN [ st1 EXCEPT !.r[k].area = rE,
                                            !.reclipped = @ \cup { k } ]
                          ELSE st1
                  IN  [ st2 EXCEPT !.rC = AddPoints(@, rF, 1) ]
             ELSE st1

\* variant: the cascade looks at the colour and passes over red cells
Visit_SkipsRed(st, pv, q, k) ==
    IF st.r[k].colour = "red" \/ ~ Contains(st.r[k].area, q) THEN st
    ELSE LET u   == st.r[k].site
             rd  == PolyClip(st.r[k].area, perpendicularBisector(pv, u))
             rD  == rd.a
             rE  == rd.b
             rF  == rd.c
             st1 == [ st EXCEPT !.usedCells = @ \cup { k } ]
         IN  IF Just(rD) /\ Just(rE)
             THEN LET st2 ==
                          IF Contains(rD, u)
                          THEN [ st1 EXCEPT !.r[k].area = rD,
                                            !.newCell = PolyUnion(@, rE),
                                            !.reclipped = @ \cup { k } ]
                          ELSE IF Contains(rE, u)
                          THEN [ st1 EXCEPT !.r[k].area = rE,
                                            !.newCell = PolyUnion(@, rD),
                                            !.reclipped = @ \cup { k } ]
                          ELSE st1
                  IN  [ st2 EXCEPT !.rC = AddPoints(@, rF, 1) ]
             ELSE st1

\* variant: a cell that contains q is marked used but never clipped
Visit_MarksOnly(st, pv, q, k) ==
    IF ~ Contains(st.r[k].area, q) THEN st
    ELSE [ st EXCEPT !.usedCells = @ \cup { k } ]

\* variant: a cell is marked used also when it does not contain q
Visit_MarksAlways(st, pv, q, k) ==
    IF ~ Contains(st.r[k].area, q)
    THEN [ st EXCEPT !.usedCells = @ \cup { k } ]
    ELSE CHOOSE res \in
      { LET u   == st.r[k].site
            rD  == rd.a
            rE  == rd.b
            rF  == rd.c
            st1 == [ st EXCEPT !.usedCells = @ \cup { k } ]
        IN  IF Just(rD) /\ Just(rE)
            THEN LET st2 ==
                         IF Contains(rD, u)
                         THEN [ st1 EXCEPT !.r[k].area = rD,
                                           !.newCell = PolyUnion(@, rE),
                                           !.reclipped = @ \cup { k } ]
                         ELSE IF Contains(rE, u)
                         THEN [ st1 EXCEPT !.r[k].area = rE,
                                           !.newCell = PolyUnion(@, rD),
                                           !.reclipped = @ \cup { k } ]
                         ELSE st1
                 IN  [ st2 EXCEPT !.rC = AddPoints(@, rF, 1) ]
            ELSE st1 :
        rd \in { PolyClip(st.r[k].area,
                          perpendicularBisector(pv, st.r[k].site)) } } : TRUE

\* the body of the for loop for an unused cell k and the worklist point q;
\* st holds r, usedCells, newCell, rC and reclipped
Visit(st, pv, q, k) ==
    IF ~ Contains(st.r[k].area, q) THEN st
    ELSE CHOOSE res \in
      { LET u   == st.r[k].site
            rD  == rd.a
            rE  == rd.b
            rF  == rd.c
            st1 == [ st EXCEPT !.usedCells = @ \cup { k } ]
        IN  IF Just(rD) /\ Just(rE)
            THEN LET st2 ==
                         IF Contains(rD, u)
                         THEN [ st1 EXCEPT !.r[k].area = rD,
                                           !.newCell = PolyUnion(@, rE),
                                           !.reclipped = @ \cup { k } ]
                         ELSE IF Contains(rE, u)
                         THEN [ st1 EXCEPT !.r[k].area = rE,
                                           !.newCell = PolyUnion(@, rD),
                                           !.reclipped = @ \cup { k } ]
                         ELSE st1
                 IN  [ st2 EXCEPT !.rC = AddPoints(@, rF, 1) ]
            ELSE st1 :
        rd \in { PolyClip(st.r[k].area,
                          perpendicularBisector(pv, st.r[k].site)) } } : TRUE

\* variant: the for loop is left after the first cell that contains q
CascadeScan_Breaks(st, pv, q, k) ==
    LET hit == { j \in k..Len(st.r) :
                    j \notin st.usedCells /\ Contains(st.r[j].area, q) }
    IN  IF hit = {} THEN st
        ELSE Visit(st, pv, q, CHOOSE j \in hit : \A i \in hit : j <= i)

\* the for loop over the cells for the worklist point q, from cell k on; the
\* state s after the visit of cell k is the one the loop goes on with
RECURSIVE CascadeScan(_, _, _, _)
CascadeScan(st, pv, q, k) ==
    IF k > Len(st.r) THEN st
    ELSE IF k \in st.usedCells THEN CascadeScan(st, pv, q, k + 1)
    ELSE CHOOSE res \in { CascadeScan(s, pv, q, k + 1) :
                              s \in { Visit(st, pv, q, k) } } : TRUE

\* variant: the iteration leaves the popped point on the worklist
CascadeStep_KeepsPoint ==
    /\ pc = "cascade"
    /\ Len(rC) > 0
    /\ \E st \in { CascadeScan([ r |-> r, usedCells |-> usedCells,
                                  newCell |-> newCell, rC |-> rC,
                                  reclipped |-> reclipped ], v, rC[1], 1) } :
           /\ r' = st.r
           /\ usedCells' = st.usedCells
           /\ newCell' = st.newCell
           /\ reclipped' = st.reclipped
           /\ rC' = st.rC
    /\ UNCHANGED << cells, pc, v, colour, nearestCell, outcome, prev, via, log >>
    /\ UNCHANGED elsewhere

\* one iteration of the while loop
CascadeStep ==
    /\ pc = "cascade"
    /\ Len(rC) > 0
    /\ \E st \in { CascadeScan([ r |-> r, usedCells |-> usedCells,
                                  newCell |-> newCell, rC |-> rC,
                                  reclipped |-> reclipped ], v, rC[1], 1) } :
           /\ r' = st.r
           /\ usedCells' = st.usedCells
           /\ newCell' = st.newCell
           /\ reclipped' = st.reclipped
           /\ rC' = PolyRemovePoint(st.rC, rC[1])
    /\ UNCHANGED << cells, pc, v, colour, nearestCell, outcome, prev, via, log >>
    /\ UNCHANGED elsewhere

\* variant: the located cell is returned in the colour of the new cell
Finish_Repaints ==
    /\ pc = "cascade"
    /\ Len(rC) = 0
    /\ Return(SetAdd([ r EXCEPT ![nearestCell].colour = colour ],
                     cell(v, newCell, colour)), "done")
    /\ UNCHANGED << reclipped, prev, via, log >>
    /\ UNCHANGED elsewhere

\* the worklist is empty: the new cell is added and r is returned
Finish ==
    /\ pc = "cascade"
    /\ Len(rC) = 0
    /\ Return(SetAdd(r, cell(v, newCell, colour)), "done")
    /\ UNCHANGED << reclipped, prev, via, log >>
    /\ UNCHANGED elsewhere

Next ==
    \/ \E pv \in Sites, pColour \in Colours : Insert(pv, pColour)
    \/ CascadeStep
    \/ Finish

Spec == Init /\ [][Next]_vars

\* the same walk over the collinear sites, for long runs
InsertLine(pv) ==
    /\ Len(log) < MaxLineInserts
    /\ Call(pv, DefaultColour)
    /\ via' = "cell"

NextLine ==
    \/ \E pv \in LineSites : InsertLine(pv)
    \/ CascadeStep
    \/ Finish

SpecLine == Init /\ [][NextLine]_vars

\* bare sites next to coloured cells
NextVector ==
    \/ \E pv \in Sites : InsertVector(pv)
    \/ \E pv \in Sites : Insert(pv, "red")
    \/ CascadeStep
    \/ Finish

SpecVector == Init /\ [][NextVector]_vars

\* operator + is one synchronous call: once in the while loop it goes on
\* to its return
\* the walk from diagrams whose cells were assigned from outside: cells is a
\* public member, and a cell put there need not hold its own site
MaxRawInserts == 2

RawSites == { <<0, 0, 1>>, <<500, 0, 1>>, <<-100, 0, 1>>, <<800, 0, 1>> }

RawDiagrams ==
    { << >>,
      << cell(<<1500, 0, 1>>, BootstrapSquare(<<0, 0, 1>>), DefaultColour) >>,
      << cell(<<-500, 0, 1>>,
              << << <<-1000, -1000, 1>>, <<0, -1000, 1>>,
                    <<0, 1000, 1>>, <<-1000, 1000, 1>> >> >>, DefaultColour),
         cell(<<1500, 0, 1>>,
              << << <<0, -1000, 1>>, <<1000, -1000, 1>>,
                    <<1000, 1000, 1>>, <<0, 1000, 1>> >> >>, "red") >> }

InitRaw ==
    /\ cells \in RawDiagrams
    /\ pc = "idle"
    /\ r = << >>
    /\ v = NoVector
    /\ colour = DefaultColour
    /\ nearestCell = 0
    /\ newCell = << >>
    /\ rC = << >>
    /\ usedCells = {}
    /\ reclipped = {}
    /\ outcome = "none"
    /\ prev = << >>
    /\ via = "none"
    /\ log = << >>
    /\ InitElsewhere

InsertRaw(pv, pColour) ==
    /\ Len(log) < MaxRawInserts
    /\ Call(pv, pColour)
    /\ via' = "cell"

NextRaw ==
    \/ \E pv \in RawSites, pColour \in Colours : InsertRaw(pv, pColour)
    \/ CascadeStep
    \/ Finish

SpecRaw == InitRaw /\ [][NextRaw]_vars

\* the walk from the same diagrams with sites off the axis as well, long
\* enough for the cascade to reach a cell that a call added
MaxOwnInserts == 3

OwnSites == RawSites \cup { <<0, 500, 1>> }

InsertOwn(pv) ==
    /\ Len(log) < MaxOwnInserts
    /\ Call(pv, DefaultColour)
    /\ via' = "cell"

NextOwn ==
    \/ \E pv \in OwnSites : InsertOwn(pv)
    \/ CascadeStep
    \/ Finish

SpecOwn == InitRaw /\ [][NextOwn]_vars

\* the walk over four sites on one circle: the fourth bisector runs through
\* the point where the first three cells meet
MaxCircleInserts == 4

CircleSites == { <<-10, 0, 1>>, <<10, 0, 1>>, <<0, 100, 1>>, <<0, -1, 1>> }

InsertCircle(pv) ==
    /\ Len(log) < MaxCircleInserts
    /\ Call(pv, DefaultColour)
    /\ via' = "cell"

NextCircle ==
    \/ \E pv \in CircleSites : InsertCircle(pv)
    \/ CascadeStep
    \/ Finish

SpecCircle == Init /\ [][NextCircle]_vars

\* the walk whose calls always run to their return: an iteration of the
\* while loop and the return are steps of the one call under way, which
\* nothing suspends
FairSites == { <<-10, 0, 1>>, <<10, 0, 1>>, <<0, 100, 1>>, <<100, 0, 1>> }

InsertFair(pv) ==
    /\ Len(log) < MaxInserts
    /\ Call(pv, DefaultColour)
    /\ via' = "cell"

NextFair ==
    \/ \E pv \in FairSites : InsertFair(pv)
    \/ CascadeStep
    \/ Finish

SpecFair ==
    Init /\ [][NextFair]_vars /\ WF_vars(CascadeStep) /\ WF_vars(Finish)

----------------------------------------------------------------------------
(* operator + as a function of the receiver and the cell *)

\* the while loop, run until the worklist is empty
RECURSIVE CascadeLoop(_, _)
CascadeLoop(st, pv) ==
    IF Len(st.rC) = 0 THEN st
    ELSE LET q  == st.rC[1]
             s1 == CascadeScan(st, pv, q, 1)
         IN  CascadeLoop([ s1 EXCEPT !.rC = PolyRemovePoint(@, q) ], pv)

\* cs + c: the cells of the returned diagram and the cells its cascade
\* re-clipped
Plus(cs, c) ==
    LET Result(ret, hit) == [ cells |-> ret, reclipped |-> hit ]
    IN  IF Len(cs) > 0
        THEN IF ~ HaveMatch(cs, c.site) THEN Result(cs, {})
             ELSE LET nc      == Locate(cs, c.site)
                      nearest == cs[nc].site
                      rd      == PolyClip(cs[nc].area, perpendicularBisector(c.site, nearest))
                      Run(kept, other) ==
                          LET st == CascadeLoop([ r |-> [ cs EXCEPT ![nc].area = kept ],
                                                  usedCells |-> { nc },
                                                  newCell |-> other,
                                                  rC |-> rd.c,
                                                  reclipped |-> {} ], c.site)
                          IN  Result(SetAdd(st.r, cell(c.site, st.newCell, c.colour)),
                                     st.reclipped)
                  IN  IF Just(rd.a) /\ Just(rd.b)
                      THEN IF Contains(rd.a, nearest) THEN Run(rd.a, rd.b)
                           ELSE IF Contains(rd.b, nearest) THEN Run(rd.b, rd.a)
                           ELSE Result(SetAdd(cs, cell(c.site, rd.b, c.colour)), {})
                      ELSE Result(cs, {})
        ELSE Result(SetAdd(cs, cell(c.site, BootstrapSquare(c.site), c.colour)), {})

\* the diagram after the first n logged sites, all inserted as bare sites
RECURSIVE Replay(_, _)
Replay(sites, n) ==
    IF n = 0 THEN [ cells |-> << >>, reclipped |-> {} ]
    ELSE Plus(Replay(sites, n - 1).cells, cell(sites[n], << >>, DefaultColour))

----------------------------------------------------------------------------
(* the calls of cube<depth>::faces *)

\* the face a range-based for over the std::set visits first
FirstFace(fs) == CHOOSE f \in fs : \A g \in fs \ { f } : FaceLess(f, g)

\* the return of faces() of the call in progress with the set fs
CubeReturn(depth, fs) ==
    /\ cubePc' = "idle"
    /\ cubeRet' = [ cubeRet EXCEPT ![depth] = fs ]
    /\ cubeFirst' = IF cubeCalls[depth] = 0
                    THEN [ cubeFirst EXCEPT ![depth] = fs ] ELSE cubeFirst
    /\ cubeCalls' = [ cubeCalls EXCEPT ![depth] = @ + 1 ]

\* a call of cube<depth>::faces(), up to the early return or to the start
\* of the loop over i
FacesCall(depth) ==
    /\ cubePc = "idle"
    /\ cubeCalls[depth] < MaxCubeCalls
    /\ IF Cardinality(cubeFaces[depth]) = CubeSize(depth)
       THEN /\ CubeReturn(depth, cubeFaces[depth])
            /\ UNCHANGED << cubeFaces, cubeDepth, cubeI, cubeTodo, cubeNew >>
       ELSE /\ cubePc' = "loop"
            /\ cubeDepth' = depth
            /\ cubeI' = 2
            /\ cubeTodo' = cubeFaces[depth]
            /\ cubeNew' = {}
            /\ UNCHANGED << cubeFaces, cubeRet, cubeFirst, cubeCalls >>
    /\ UNCHANGED << diagram, cliVars, ifsVars >>

\* the body of the loop over the faces, for the next face fa
FaceStep ==
    /\ cubePc = "loop"
    /\ cubeTodo # {}
    /\ LET fa == FirstFace(cubeTodo)
       IN  /\ cubeNew' = cubeNew \cup { SideFace(fa, j, cubeI) : j \in 1..4 }
                                 \cup { ShiftedFace(fa, cubeI) }
           /\ cubeTodo' = cubeTodo \ { fa }
    /\ UNCHANGED << cubeFaces, cubePc, cubeDepth, cubeI, cubeRet, cubeFirst,
                    cubeCalls >>
    /\ UNCHANGED << diagram, cliVars, ifsVars >>

\* the end of the loop over the faces: newFaces goes into faces, and the
\* loop over i goes on or the call returns
PassEnd ==
    /\ cubePc = "loop"
    /\ cubeTodo = {}
    /\ LET fs == cubeFaces[cubeDepth] \cup cubeNew
       IN  /\ cubeFaces' = [ cubeFaces EXCEPT ![cubeDepth] = fs ]
           /\ IF cubeI + 1 < cubeDepth
              THEN /\ cubeI' = cubeI + 1
                   /\ cubeTodo' = fs
                   /\ cubeNew' = {}
                   /\ UNCHANGED << cubePc, cubeDepth, cubeRet, cubeFirst,
                                   cubeCalls >>
              ELSE /\ CubeReturn(cubeDepth, fs)
                   /\ UNCHANGED << cubeDepth, cubeI, cubeTodo, cubeNew >>
    /\ UNCHANGED << diagram, cliVars, ifsVars >>

NextCube ==
    \/ \E depth \in CubeDepths : FacesCall(depth)
    \/ FaceStep
    \/ PassEnd

SpecCube == Init /\ [][NextCube]_vars

----------------------------------------------------------------------------
(* the registry of options and hints, and options::apply *)

\* no object is alive at the address a
Free(a) == optionAt[a] = "none" /\ hintAt[a] = "none"

\* the bookkeeping of a construction, a destruction or a call of add/remove
Registry(what) ==
    /\ applyPc = "idle"
    /\ cliCalls < MaxCliCalls
    /\ cliCalls' = cliCalls + 1
    /\ cliLast' = what
    /\ cliBefore' = << opts, hints >>
    /\ UNCHANGED << diagram, cubeVars, ifsVars, applyVars >>

\* option::option(pMatch, pHandler, pDescription, pOpts) at the address a
OptionCtor(a, kind, inst) ==
    /\ Free(a)
    /\ Registry("option")
    /\ optionAt' = [ optionAt EXCEPT ![a] = inst ]
    /\ optionKind' = [ optionKind EXCEPT ![a] = kind ]
    /\ opts' = [ opts EXCEPT ![inst] = SetInsert(@, a) ]
    /\ UNCHANGED << hints, hintAt >>

\* option::~option of the option at the address a
OptionDtor(a) ==
    /\ optionAt[a] # "none"
    /\ Registry("~option")
    /\ opts' = [ opts EXCEPT ![optionAt[a]] = SetErase(@, a) ]
    /\ optionAt' = [ optionAt EXCEPT ![a] = "none" ]
    /\ optionKind' = [ optionKind EXCEPT ![a] = "none" ]
    /\ UNCHANGED << hints, hintAt >>

\* hint::hint(pTitle, pUsage, pOpts) at the address a
HintCtor(a, inst) ==
    /\ Free(a)
    /\ Registry("hint")
    /\ hintAt' = [ hintAt EXCEPT ![a] = inst ]
    /\ hints' = [ hints EXCEPT ![inst] = SetInsert(@, a) ]
    /\ UNCHANGED << opts, optionAt, optionKind >>

\* hint::~hint of the hint at the address a
HintDtor(a) ==
    /\ hintAt[a] # "none"
    /\ Registry("~hint")
    /\ hints' = [ hints EXCEPT ![hintAt[a]] = SetErase(@, a) ]
    /\ hintAt' = [ hintAt EXCEPT ![a] = "none" ]
    /\ UNCHANGED << opts, optionAt, optionKind >>

\* options::add(option &) called once more for an option of this object
AddOption(inst, a) ==
    /\ optionAt[a] = inst
    /\ Registry("add")
    /\ opts' = [ opts EXCEPT ![inst] = SetInsert(@, a) ]
    /\ UNCHANGED << hints, optionAt, optionKind, hintAt >>

\* options::add(hint &) called once more for a hint of this object
AddHint(inst, a) ==
    /\ hintAt[a] = inst
    /\ Registry("add")
    /\ hints' = [ hints EXCEPT ![inst] = SetInsert(@, a) ]
    /\ UNCHANGED << opts, optionAt, optionKind, hintAt >>

\* options::remove(option &) called for an option of another object
RemoveOption(inst, a) ==
    /\ optionAt[a] \notin { "none", inst }
    /\ Registry("remove")
    /\ opts' = [ opts EXCEPT ![inst] = SetErase(@, a) ]
    /\ UNCHANGED << hints, optionAt, optionKind, hintAt >>

\* options::remove(hint &) called for a hint of another object
RemoveHint(inst, a) ==
    /\ hintAt[a] \notin { "none", inst }
    /\ Registry("remove")
    /\ hints' = [ hints EXCEPT ![inst] = SetErase(@, a) ]
    /\ UNCHANGED << opts, optionAt, optionKind, hintAt >>

NextRegistry ==
    \/ \E a \in Addresses, kind \in OptionKinds, inst \in Instances :
          OptionCtor(a, kind, inst)
    \/ \E a \in Addresses : OptionDtor(a)
    \/ \E a \in Addresses, inst \in Instances : HintCtor(a, inst)
    \/ \E a \in Addresses : HintDtor(a)
    \/ \E a \in Addresses, inst \in Instances : AddOption(inst, a)
    \/ \E a \in Addresses, inst \in Instances : AddHint(inst, a)
    \/ \E a \in Addresses, inst \in Instances : RemoveOption(inst, a)
    \/ \E a \in Addresses, inst \in Instances : RemoveHint(inst, a)

SpecRegistry == Init /\ [][NextRegistry]_vars

\* options::common().apply(pArgs), up to the start of the for loop
ApplyCall(pArgs) ==
    /\ applyPc = "idle"
    /\ applyCalls < MaxApplyCalls
    /\ applyPc' = "loop"
    /\ args' = pArgs
    /\ argPos' = 1
    /\ applyR' = 0
    /\ remainder' = << >>
    /\ doneWithArgs' = FALSE
    /\ firstArg' = TRUE
    /\ invoked' = << >>
    /\ pushedFrom' = << >>
    /\ usageShown' = FALSE
    /\ UNCHANGED << applyRet, applyCalls >>
    /\ UNCHANGED << diagram, cubeVars, ifsVars, registryVars >>

\* the handlers the inner loop invokes for the argument at the position pos:
\* those of the options of opts, in the order of the set, whose regular
\* expression matches
Invocations(pos, arg) ==
    LET hit == SelectSeq(opts["common"],
                         LAMBDA a : RegexMatch(optionKind[a], arg))
    IN  [ i \in 1..Len(hit) |-> << pos, hit[i], Handler(optionKind[hit[i]]) >> ]

\* one iteration of the for loop over args
ApplyArg ==
    /\ applyPc = "loop"
    /\ argPos <= Len(args)
    /\ LET arg == args[argPos]
           inv == IF doneWithArgs THEN << >> ELSE Invocations(argPos, arg)
           won == SelectSeq(inv, LAMBDA e : e[3])
       IN  IF arg = "--"
           THEN /\ doneWithArgs' = TRUE
                /\ UNCHANGED << applyR, remainder, invoked, pushedFrom, firstArg >>
           ELSE /\ applyR' = applyR + Len(won)
                /\ invoked' = invoked \o inv
                /\ IF Len(won) = 0 /\ ~ firstArg
                   THEN /\ remainder' = Append(remainder, arg)
                        /\ pushedFrom' = Append(pushedFrom, argPos)
                   ELSE UNCHANGED << remainder, pushedFrom >>
                /\ firstArg' = FALSE
                /\ UNCHANGED doneWithArgs
    /\ argPos' = argPos + 1
    /\ UNCHANGED << applyPc, args, usageShown, applyRet, applyCalls >>
    /\ UNCHANGED << diagram, cubeVars, ifsVars, registryVars >>

\* the end of the for loop: usage(args[0]), which returns 0, or r
ApplyReturn ==
    /\ applyPc = "loop"
    /\ argPos > Len(args)
    /\ applyPc' = "idle"
    /\ IF applyR = 0 /\ Len(args) > 0 /\ Len(remainder) = 0
       THEN usageShown' = TRUE /\ applyRet' = 0
       ELSE usageShown' = FALSE /\ applyRet' = applyR
    /\ applyCalls' = applyCalls + 1
    /\ UNCHANGED << remainder, args, argPos, applyR, doneWithArgs, firstArg,
                    invoked, pushedFrom >>
    /\ UNCHANGED << diagram, cubeVars, ifsVars, registryVars >>

NextApply ==
    \/ \E a \in Addresses, kind \in OptionKinds : OptionCtor(a, kind, "common")
    \/ \E a \in Addresses : OptionDtor(a)
    \/ \E pArgs \in ArgVectors : ApplyCall(pArgs)
    \/ ApplyArg
    \/ ApplyReturn

SpecApply == Init /\ [][NextApply]_vars

----------------------------------------------------------------------------
(* the iterator of an iterated function system *)

\* the iterator as operator == reads it
This == [ iteration |-> iteration, basePosition |-> basePosition, n |-> functions ]

\* the iterator equals end()
AtEnd == ifsPc = "live" /\ IteratorEquals(This, EndIterator(functions, Len(iteration), baseFaces))

\* ifsIterator::begin(pParameter, pFunctions) with n functions, k iterations
\* and a base of f faces
begin(n, k, f) ==
    /\ ifsPc = "none"
    /\ ifsPc' = "live"
    /\ functions' = n
    /\ baseFaces' = f
    /\ iteration' = ZeroTuple(k)
    /\ basePosition' = 0
    /\ increments' = 0
    /\ visited' = { << ZeroTuple(k), 0 >> }
    /\ UNCHANGED << diagram, cubeVars, cliVars >>

\* operator ++ (void)
Increment ==
    /\ ifsPc = "live"
    /\ AtEnd => increments < baseFaces * (functions ^ Len(iteration)) + MaxEndIncrements
    /\ LET moved == IF basePosition # baseFaces THEN basePosition + 1 ELSE basePosition
       IN  IF moved # baseFaces
           THEN /\ basePosition' = moved
                /\ UNCHANGED iteration
           ELSE /\ basePosition' = 0
                /\ iteration' = IF isEnd(iteration, functions)
                                THEN iteration
                                ELSE Advance(iteration, Len(iteration), functions)
    /\ increments' = increments + 1
    /\ visited' = IF isEnd(iteration', functions)
                  THEN visited
                  ELSE visited \cup { << iteration', basePosition' >> }
    /\ UNCHANGED << ifsPc, functions, baseFaces >>
    /\ UNCHANGED << diagram, cubeVars, cliVars >>

NextIfs ==
    \/ \E n \in 1..MaxFunctions, k \in 1..MaxIterations, f \in 1..MaxFaces : begin(n, k, f)
    \/ Increment

SpecIfs == Init /\ [][NextIfs]_vars

----------------------------------------------------------------------------
(* measures used to state the properties *)

Last(s) == s[Len(s)]

SitesOf(cs) == { cs[i].site : i \in 1..Len(cs) }

\* site s lies in the square of half-width boundingBoxSize around site f
InSquareAround(f, s) ==
    /\ Abs(s[1] * f[3] - f[1] * s[3]) <= boundingBoxSize * s[3] * f[3]
    /\ Abs(s[2] * f[3] - f[2] * s[3]) <= boundingBoxSize * s[3] * f[3]

\* the logged sites inside the bounding square, which the first call fixes
InBoundsSites == { s \in { log[i] : i \in 1..Len(log) } : InSquareAround(log[1], s) }

\* every call so far had a site in bounds that was not in the diagram yet
AllSuccessful ==
    \A i \in 1..Len(log) :
        /\ InSquareAround(log[1], log[i])
        /\ \A j \in 1..(i - 1) : log[j] # log[i]

\* rationals <<n, d>>, d > 0
RatAdd(a, b) ==
    LET l == (a[2] \div GCD(a[2], b[2])) * b[2]
        n == a[1] * (l \div a[2]) + b[1] * (l \div b[2])
        g == GCD(Abs(n), l)
    IN  << n \div g, l \div g >>

\* twice the area of a piece, from vertex i on (shoelace formula)
RECURSIVE PieceArea2(_, _)
PieceArea2(P, i) ==
    IF i > Len(P) THEN << 0, 1 >>
    ELSE LET a == P[i]
             b == P[Next1(i, Len(P))]
             n == a[1] * b[2] - b[1] * a[2]
             d == a[3] * b[3]
             g == GCD(Abs(n), d)
         IN  RatAdd(<< n \div g, d \div g >>, PieceArea2(P, i + 1))

RECURSIVE AreaArea2(_, _)
AreaArea2(area, i) ==
    IF i > Len(area) THEN << 0, 1 >>
    ELSE RatAdd(PieceArea2(area[i], 1), AreaArea2(area, i + 1))

RECURSIVE CellsArea2(_, _)
CellsArea2(cs, i) ==
    IF i > Len(cs) THEN << 0, 1 >>
    ELSE RatAdd(AreaArea2(cs[i].area, 1), CellsArea2(cs, i + 1))

\* twice the area of the bounding square
SquareArea2 == << 2 * (2 * boundingBoxSize) * (2 * boundingBoxSize), 1 >>

\* some edge of piece P has all of piece Q on its outer side
Separates(P, Q) ==
    \E i \in 1..Len(P) :
        \A j \in 1..Len(Q) : Side(LineThrough(P[i], P[Next1(i, Len(P))]), Q[j]) <= 0

\* two convex pieces share no area
PiecesDisjoint(P, Q) == Separates(P, Q) \/ Separates(Q, P)

AreasDisjoint(a1, a2) ==
    \A i \in 1..Len(a1) : \A j \in 1..Len(a2) : PiecesDisjoint(a1[i], a2[j])

\* every vertex of every cell lies in the square around the first site
CellsInSquare(cs) ==
    \A i \in 1..Len(cs) : \A j \in 1..Len(cs[i].area) :
        \A k \in 1..Len(cs[i].area[j]) : InSquareAround(log[1], cs[i].area[j][k])

\* the pieces of one cell share no area with each other
PiecesApart(area) ==
    \A i \in 1..Len(area) : \A j \in 1..Len(area) :
        i < j => PiecesDisjoint(area[i], area[j])

\* the cells tile the bounding square
Partition(cs) ==
    /\ CellsInSquare(cs)
    /\ \A i \in 1..Len(cs) : PiecesApart(cs[i].area)
    /\ \A i \in 1..Len(cs) : \A j \in 1..Len(cs) :
           i < j => AreasDisjoint(cs[i].area, cs[j].area)
    /\ CellsArea2(cs, 1) = SquareArea2

\* w is at least as near to site s as to site t
NotFarther(w, s, t) ==
    LET ss == s[1] * s[1] + s[2] * s[2]
        tt == t[1] * t[1] + t[2] * t[2]
    IN  2 * ((t[1] - s[1]) * w[1] + (t[2] - s[2]) * w[2]) <= (tt - ss) * w[3]

\* every vertex of every cell, hence every point of it, is at least as near
\* to the cell's site as to any other site of the diagram (sites are integer)
NearestSite(cs) ==
    \A i \in 1..Len(cs) : \A j \in 1..Len(cs[i].area) :
        \A k \in 1..Len(cs[i].area[j]) : \A t \in 1..Len(cs) :
            NotFarther(cs[i].area[j][k], cs[i].site, cs[t].site)

RatLess(a, b) == a[1] * b[2] < b[1] * a[2]

\* the cells lie in the bounding square and their areas add up to no less
\* than its area: a diagram that fails this leaves part of the square bare
Covered(cs) ==
    /\ CellsInSquare(cs)
    /\ ~ RatLess(CellsArea2(cs, 1), SquareArea2)

\* the corners of the square of half-width h around the vector c
CornersAround(c, h) ==
    { VAdd(c, << sx * h, sy * h, 1 >>) : sx \in { -1, 1 }, sy \in { -1, 1 } }

\* the corners of the rectangle [x1, x2] x [y1, y2], integer bounds
Rectangle(x1, x2, y1, y2) ==
    { << x1, y1, 1 >>, << x2, y1, 1 >>, << x2, y2, 1 >>, << x1, y2, 1 >> }

VerticesOf(P) == { P[i] : i \in 1..Len(P) }

\* the area is one convex piece with exactly the vertices vs
IsPolygon(area, vs) == Len(area) = 1 /\ Len(area[1]) = Cardinality(vs) /\ VerticesOf(area[1]) = vs

\* a coordinate of s exceeds the bounding half-width
ExceedsHalfWidth(s) ==
    \/ Abs(s[1]) > boundingBoxSize * s[3]
    \/ Abs(s[2]) > boundingBoxSize * s[3]

\* the diagrams d1 and d2 have the same number of cells and the same areas
SameAreas(d1, d2) ==
    /\ Len(d1) = Len(d2)
    /\ \A i \in 1..Len(d1) : d1[i].area = d2[i].area

\* a call has returned
Returned == pc = "idle" /\ Len(log) > 0

Origin == << 0, 0, 1 >>

----------------------------------------------------------------------------
(* properties *)

\* C1: after any sequence of successful insertions (every site in bounds and
\* new) the cells lie in the bounding square, no two pieces share area and
\* the areas add up to the area of the square.
Thm_C1_Partition ==
    (Returned /\ AllSuccessful) => Partition(cells)

\* a third site was added and its cascade re-clipped a neighbour
Wit_C1_Partition ==
    /\ Returned /\ AllSuccessful
    /\ Len(cells) = 3
    /\ outcome = "done"
    /\ reclipped # {}

\* C2: after any sequence of insertions every point of every cell is at
\* least as near to the cell's site as to any other site of the diagram.
Cex_C2_NearestSite ==
    Returned => NearestSite(cells)

\* C3: after any sequence of insert calls there is exactly one cell per
\* site that was in bounds, and no other cell.
Cex_C3_Bijection ==
    Returned =>
        /\ Len(cells) = Cardinality(InBoundsSites)
        /\ SitesOf(cells) = InBoundsSites

\* C4: a call on a non-empty diagram none of whose cells contains the site
\* returns the receiver's cells unchanged, and no cell for the site.
Thm_C4_NoMatchNoOp ==
    (Returned /\ Len(prev) > 0 /\ ~ HaveMatch(prev, Last(log)))
        => (cells = prev /\ Last(log) \notin SitesOf(cells))

\* a call on a non-empty diagram found no containing cell
Wit_C4_NoMatchNoOp ==
    /\ Returned /\ Len(prev) > 0
    /\ ~ HaveMatch(prev, Last(log))
    /\ outcome = "nomatch"

\* C5 as stated: a site with a coordinate beyond the half-width, inserted
\* into a non-empty diagram, leaves the cell count and all areas unchanged,
\* wherever the first site was.
Cex_C5_BeyondHalfWidth ==
    (Returned /\ Len(prev) > 0 /\ ExceedsHalfWidth(Last(log)))
        => SameAreas(prev, cells)

\* C5 amended: a site farther than the half-width from the first inserted
\* site in either axis, inserted into a non-empty diagram, leaves the cell
\* count and all areas unchanged.
Thm_C5_OutsideSquare ==
    (Returned /\ Len(prev) > 0 /\ ~ InSquareAround(log[1], Last(log)))
        => SameAreas(prev, cells)

\* a site outside the square around a first site that is not the origin
Wit_C5_OutsideSquare ==
    /\ Returned /\ Len(prev) > 0
    /\ ~ InSquareAround(log[1], Last(log))
    /\ log[1] # Origin
    /\ outcome = "nomatch"

\* C6 as stated: the first insertion yields exactly one cell whose polygon
\* is the square with the corners (+-1000, +-1000).
Cex_C6_SquareAtOrigin ==
    outcome = "bootstrap" =>
        /\ Len(cells) = 1
        /\ IsPolygon(cells[1].area, CornersAround(Origin, 1000))

\* C6 amended: the first insertion of a site s yields exactly one cell
\* whose polygon is the square with the corners s + (+-1000, +-1000).
Thm_C6_SquareAtSite ==
    outcome = "bootstrap" =>
        /\ Len(cells) = 1
        /\ IsPolygon(cells[1].area, CornersAround(log[1], 1000))

\* the first site was not the origin
Wit_C6_SquareAtSite ==
    /\ outcome = "bootstrap"
    /\ Len(log) = 1
    /\ log[1] # Origin

\* C7: the first insertion adds one cell with the site and the square of
\* half-width boundingBoxSize around it, without location, clip or cascade,
\* and the diagram covers that square after every later call.
Cex_C7_BootstrapStays ==
    /\ outcome = "bootstrap" =>
           /\ Len(prev) = 0 /\ Len(cells) = 1
           /\ cells[1].site = log[1]
           /\ IsPolygon(cells[1].area, CornersAround(log[1], boundingBoxSize))
           /\ pc = "idle" /\ usedCells = {} /\ reclipped = {} /\ rC = << >>
    /\ (Returned /\ Len(cells) > 0) => Covered(cells)

\* C8 as stated: after (-10,0) and (10,0) there are two cells, split at
\* x = 0, each 1000 wide and as high as the square.
Cex_C8_EqualHalves ==
    (Returned /\ log = << << -10, 0, 1 >>, << 10, 0, 1 >> >>) =>
        /\ Len(cells) = 2
        /\ cells[1].site = << -10, 0, 1 >>
        /\ IsPolygon(cells[1].area, Rectangle(-1000, 0, -1000, 1000))
        /\ cells[2].site = << 10, 0, 1 >>
        /\ IsPolygon(cells[2].area, Rectangle(0, 1000, -1000, 1000))

\* C8 amended: after (-10,0) and (10,0) there are two cells, split at x = 0
\* and as high as the square around (-10,0): the cell of (-10,0) is 1010
\* wide, the cell of (10,0) is 990 wide.
Thm_C8_SplitAtZero ==
    (Returned /\ log = << << -10, 0, 1 >>, << 10, 0, 1 >> >>) =>
        /\ Len(cells) = 2
        /\ cells[1].site = << -10, 0, 1 >>
        /\ IsPolygon(cells[1].area, Rectangle(-1010, 0, -1000, 1000))
        /\ cells[2].site = << 10, 0, 1 >>
        /\ IsPolygon(cells[2].area, Rectangle(0, 990, -1000, 1000))

\* the two insertions have returned
Wit_C8_SplitAtZero ==
    /\ Returned /\ log = << << -10, 0, 1 >>, << 10, 0, 1 >> >>
    /\ outcome = "done"

\* C9: after (0,0), (100,0), (0,100) there are three cells, and the cascade
\* of the third call re-clipped exactly one cell, which is not the located one.
Thm_C9_ThreeSiteCascade ==
    (Returned /\ log = << Origin, << 100, 0, 1 >>, << 0, 100, 1 >> >>) =>
        /\ Len(cells) = 3
        /\ SitesOf(cells) = { Origin, << 100, 0, 1 >>, << 0, 100, 1 >> }
        /\ Cardinality(reclipped) = 1
        /\ Locate(prev, Last(log)) \notin reclipped

\* the third insertion has returned
Wit_C9_ThreeSiteCascade ==
    /\ Returned /\ log = << Origin, << 100, 0, 1 >>, << 0, 100, 1 >> >>
    /\ outcome = "done"

\* C10: a call never removes a cell or a site, keeps the sites of the cells
\* distinct, and a successful call on a non-empty diagram (site in bounds
\* and new) changes the area of the located cell and adds exactly one cell,
\* the one of the new site.
Cex_C10_Lifecycle ==
    Returned =>
        /\ Len(cells) >= Len(prev)
        /\ \A i \in 1..Len(prev) : cells[i].site = prev[i].site
        /\ Cardinality(SitesOf(cells)) = Len(cells)
        /\ (/\ Len(prev) > 0
            /\ InSquareAround(log[1], Last(log))
            /\ Last(log) \notin SitesOf(prev))
           => /\ Len(cells) = Len(prev) + 1
              /\ Last(cells).site = Last(log)
              /\ HaveMatch(prev, Last(log))
              /\ cells[Locate(prev, Last(log))].area # prev[Locate(prev, Last(log))].area

\* the sites and the areas of a diagram, without the colours
Geometry(cs) == [ i \in 1..Len(cs) |-> << cs[i].site, cs[i].area >> ]

\* C11: while a call works on its copy r, split and cascade included, the
\* cells of the receiver are those it had when the call began.
Thm_C11_ReceiverUntouched ==
    pc = "cascade" => cells = prev

\* the cascade has re-clipped a cell of the copy; the receiver differs from it
Wit_C11_ReceiverUntouched ==
    /\ pc = "cascade"
    /\ reclipped # {}
    /\ r # cells

\* C12: a call with a bare site returns the diagram that the call with the
\* cell of that site and the default colour returns.
Thm_C12_BareSite ==
    (Returned /\ via = "vector")
        => cells = Plus(prev, cell(Last(log), << >>, DefaultColour)).cells

\* a bare site went through split and cascade into a diagram with a red cell
Wit_C12_BareSite ==
    /\ Returned /\ via = "vector"
    /\ outcome = "done"
    /\ reclipped # {}
    /\ \E i \in 1..Len(prev) : prev[i].colour = "red"

\* C13: the sites, the areas and the re-clipped cells after every call are
\* those of the same sites inserted in the same order with the default
\* colour, whatever colours the calls carried.
Thm_C13_ColourBlind ==
    Returned =>
        /\ Geometry(cells) = Geometry(Replay(log, Len(log)).cells)
        /\ reclipped = Replay(log, Len(log)).reclipped

\* three cells, one of them red, after a cascade that re-clipped a red cell
Wit_C13_ColourBlind ==
    /\ Returned
    /\ Len(cells) = 3
    /\ outcome = "done"
    /\ \E k \in reclipped : cells[k].colour = "red"
    /\ \E i \in 1..Len(cells) : cells[i].colour = DefaultColour

\* C14: a cascade that has begun ends with an empty worklist and the call
\* returns; every iteration in between removes the point it popped from the
\* worklist, adds finitely many points and never unmarks a used cell.
Thm_C14_CascadeHalts ==
    /\ (pc = "cascade") ~> (pc = "idle" /\ outcome = "done" /\ Len(rC) = 0)
    /\ [][ (pc = "cascade" /\ pc' = "cascade")
              => /\ usedCells \subseteq usedCells'
                 /\ \A j \in 1..Len(rC') : rC'[j] # rC[1]
                 /\ Len(rC') <= Len(rC) + 2 * Cardinality(usedCells' \ usedCells) ]_vars

\* a cascade that put new points on the worklist, re-clipped a cell and ended
Wit_C14_CascadeHalts ==
    /\ Returned
    /\ outcome = "done"
    /\ reclipped # {}
    /\ Len(cells) = 3
    /\ via = "cell"

\* C15: a call with a site that a cell of the diagram already has returns
\* the cells of the diagram, unchanged.
Cex_C15_DuplicateNoOp ==
    (Returned /\ Last(log) \in SitesOf(prev)) => cells = prev

\* C16: a call on a diagram with cells returns either the same cells, or
\* the cells with the located cell split and one new cell for the site.
Cex_C16_AllOrNothing ==
    (Returned /\ Len(prev) > 0) =>
        \/ cells = prev
        \/ /\ Len(cells) = Len(prev) + 1
           /\ Last(cells).site = Last(log)
           /\ \E i \in 1..Len(prev) :
                 /\ Contains(prev[i].area, Last(log))
                 /\ cells[i].area # prev[i].area

\* a call begins in this step and the clip of the cell it locates gives two
\* sides, neither of which holds the site of that cell
DegenerateCase ==
    /\ pc = "idle"
    /\ Len(log') = Len(log) + 1
    /\ Len(cells) > 0
    /\ HaveMatch(cells, Last(log'))
    /\ LET u  == cells[Locate(cells, Last(log'))].site
           rd == PolyClip(cells[Locate(cells, Last(log'))].area,
                          perpendicularBisector(Last(log'), u))
       IN  /\ Just(rd.a) /\ Just(rd.b)
           /\ ~ Contains(rd.a, u)
           /\ ~ Contains(rd.b, u)

\* the side rd[1] of the clip of the located cell by the bisector of its
\* site and pv
SideB(cs, pv) ==
    PolyClip(cs[Locate(cs, pv)].area,
             perpendicularBisector(pv, cs[Locate(cs, pv)].site)).b

Thm_C18_FirstMatch ==
    pc = "cascade" =>
        /\ nearestCell \in 1..Len(cells)
        /\ Contains(cells[nearestCell].area, v)
        /\ \A i \in 1..(nearestCell - 1) : ~ Contains(cells[i].area, v)
        /\ r[nearestCell].area # cells[nearestCell].area

\* v lies in two cells (on their common border); the first one was split
Wit_C18_FirstMatch ==
    /\ pc = "cascade"
    /\ \E j \in (nearestCell + 1)..Len(cells) : Contains(cells[j].area, v)
    /\ r[nearestCell].area # cells[nearestCell].area

\* C19: after the split and before any re-clip of the cascade, the located
\* cell holds the side of its clip that contains its site u, the new cell
\* starts with the other side, and no other cell differs from the receiver's.
Thm_C19_Split ==
    (pc = "cascade" /\ reclipped = {}) =>
        LET u  == cells[nearestCell].site
            rd == PolyClip(cells[nearestCell].area, perpendicularBisector(v, u))
        IN  /\ Just(rd.a) /\ Just(rd.b)
            /\ Contains(r[nearestCell].area, u)
            /\ { r[nearestCell].area, newCell } = { rd.a, rd.b }
            /\ r[nearestCell].area # newCell
            /\ Len(r) = Len(cells)
            /\ { i \in 1..Len(cells) : r[i] # cells[i] } = { nearestCell }
            /\ r[nearestCell].site = u
            /\ r[nearestCell].colour = cells[nearestCell].colour

\* the second cell of two was split; the worklist holds the chord ends
Wit_C19_Split ==
    /\ pc = "cascade" /\ reclipped = {}
    /\ Len(cells) = 2
    /\ nearestCell = 2
    /\ Len(rC) = 2
    /\ usedCells = { 2 }

\* C20: during a cascade the split cell is used and is never re-clipped,
\* only used cells are re-clipped, the used set only grows, a cell that is
\* re-clipped was not used before and a used cell keeps its area.
Thm_C20_UsedSet ==
    /\ [](pc = "cascade" =>
            /\ nearestCell \in usedCells
            /\ nearestCell \notin reclipped
            /\ reclipped \subseteq usedCells)
    /\ [][ (pc = "cascade" /\ pc' = "cascade") =>
              /\ usedCells \subseteq usedCells'
              /\ reclipped \subseteq reclipped'
              /\ (reclipped' \ reclipped) \cap usedCells = {}
              /\ \A k \in usedCells : r'[k] = r[k] ]_vars

\* a cell beside the split one was re-clipped and the worklist still holds
\* a point
Wit_C20_UsedSet ==
    /\ pc = "cascade"
    /\ Cardinality(usedCells) >= 2
    /\ reclipped # {}
    /\ Len(rC) > 0
    /\ \E k \in usedCells : k # nearestCell /\ r[k].area # cells[k].area

\* the cells that were not used and whose area contains the point the
\* iteration pops
Hit == { k \in (1..Len(r)) \ usedCells : Contains(r[k].area, rC[1]) }

\* C21 as stated: an iteration of the cascade marks and re-clips at most one
\* cell for the point it pops.
Cex_C21_OneCellPerPoint ==
    [][ (pc = "cascade" /\ pc' = "cascade")
            => Cardinality(usedCells' \ usedCells) <= 1 ]_vars

\* C21, amended: an iteration of the cascade marks used every cell that was
\* not used and whose area contains the popped point, none, one or several,
\* re-clips only cells among them and leaves every other cell as it was.
Thm_C21_EveryCellAtPoint ==
    [][ (pc = "cascade" /\ pc' = "cascade") =>
            /\ usedCells' \ usedCells = Hit
            /\ reclipped' \ reclipped \subseteq Hit
            /\ \A k \in (1..Len(r)) \ Hit : r'[k] = r[k] ]_vars

\* the popped point was the meeting point of two unused cells: both are
\* used now, with the split cell three cells in all
Wit_C21_EveryCellAtPoint ==
    /\ pc = "cascade"
    /\ Len(r) = 3
    /\ usedCells = { 1, 2, 3 }
    /\ Len(rC) = 1
    /\ log = << <<-10, 0, 1>>, <<10, 0, 1>>, <<0, 100, 1>>, <<0, -1, 1>> >>

\* C22: every iteration of the cascade takes the point it popped off the
\* worklist; when no unused cell contains the point, the cells, the area of
\* the new cell and the used set stay as they are and nothing is added to
\* the worklist.
Thm_C22_PointDropped ==
    [][ (pc = "cascade" /\ pc' = "cascade") =>
            /\ \A j \in 1..Len(rC') : rC'[j] # rC[1]
            /\ Hit = {} =>
                  /\ r' = r
                  /\ newCell' = newCell
                  /\ usedCells' = usedCells
                  /\ reclipped' = reclipped
                  /\ rC' = PolyRemovePoint(rC, rC[1]) ]_vars

\* the worklist ran empty although a second cell was there; no point lay in
\* it, and the split cell is still the only used one
Wit_C22_PointDropped ==
    /\ pc = "cascade"
    /\ Len(rC) = 0
    /\ Len(r) >= 2
    /\ usedCells = { nearestCell }
    /\ reclipped = {}

\* C23: while the cascade runs no cell of r has the site v, and a call that
\* ran its cascade to the end returns one cell more than it was given, the
\* last one with the site v, the only cell with that site.
Cex_C23_AddedOnce ==
    /\ pc = "cascade" => v \notin SitesOf(r)
    /\ (Returned /\ outcome = "done") =>
          /\ Len(cells) = Len(prev) + 1
          /\ Last(cells).site = Last(log)
          /\ Cardinality({ i \in 1..Len(cells) : cells[i].site = Last(log) }) = 1

\* the corners of a face, whatever their order
Corners(f) == { f[1], f[2], f[3], f[4] }

\* C24: every call of faces() that has returned gave size() = 2^(depth-3) *
\* (depth-1) * depth faces, no two of them with the same corners, and every
\* later call for the same depth gave the set the first call gave.
Thm_C24_CubeFaces ==
    \A d \in CubeDepths :
        (cubePc = "idle" /\ cubeCalls[d] >= 1) =>
            /\ Cardinality(cubeRet[d]) = CubeSize(d)
            /\ \A f, g \in cubeRet[d] : Corners(f) = Corners(g) => f = g
            /\ \A f \in cubeRet[d] : Cardinality(Corners(f)) = 4
            /\ cubeRet[d] = cubeFirst[d]
            /\ cubeFaces[d] = cubeRet[d]

\* the faces of the 4-cube were built by one call and returned again by a
\* second one
Wit_C24_CubeFaces ==
    /\ cubePc = "idle"
    /\ cubeCalls[4] = 2
    /\ Cardinality(cubeRet[4]) = 24

\* the sites that operator + was called with
Inserted == { log[i] : i \in 1..Len(log) }

\* C25: in every diagram a call returned, the area of every cell that a
\* call added holds the site of that cell (boundary included), whether the
\* cell came from the bootstrap, a split, the cascade or the branch taken
\* when neither side holds the site of the located cell.
Thm_C25_OwnSite ==
    \A i \in 1..Len(cells) :
        cells[i].site \in Inserted => Contains(cells[i].area, cells[i].site)

\* three calls added a cell each to a diagram of one cell that does not hold
\* its site, the first of them by the branch for the degenerate split, and
\* the cascade of the third gave a new area to a cell that a call had added
Wit_C25_OwnSite ==
    /\ Returned
    /\ outcome = "done"
    /\ Len(cells) = 4
    /\ cells[1].site \notin Inserted
    /\ \E i \in reclipped : cells[i].site \in Inserted

\* cell k of the copy keeps its site and its colour in the step
SameSiteColour(a, b) == a.site = b.site /\ a.colour = b.colour

\* C26: a call changes nothing of the cells it was given but areas, and only
\* the area of the located cell and of cells that held the worklist point of
\* an iteration while not marked used; the receiver's cells stay in place,
\* and the diagram returned holds the cells of the copy as the loop left them.
Thm_C26_Frame ==
    [][ /\ pc' = "cascade" => cells' = cells
        /\ (pc = "idle" /\ pc' = "idle") =>
              /\ Len(cells') >= Len(cells)
              /\ \A k \in 1..Len(cells) : cells'[k] = cells[k]
        /\ (pc = "idle" /\ pc' = "cascade") =>
              /\ Len(r') = Len(cells)
              /\ nearestCell' = Locate(cells, Last(log'))
              /\ \A k \in 1..Len(cells) :
                    /\ SameSiteColour(r'[k], cells[k])
                    /\ k # nearestCell' => r'[k] = cells[k]
        /\ (pc = "cascade" /\ pc' = "cascade") =>
              /\ Len(r') = Len(r)
              /\ \A k \in 1..Len(r) :
                    /\ SameSiteColour(r'[k], r[k])
                    /\ k \notin Hit => r'[k] = r[k]
        /\ (pc = "cascade" /\ pc' = "idle") =>
              /\ Len(cells') >= Len(r)
              /\ \A k \in 1..Len(r) : cells'[k] = r[k] ]_vars

\* a call that split the located cell and ran its cascade returned a diagram
\* in which another cell is the cell it was before, and the located cell has
\* a new area under its old site and colour
Wit_C26_Frame ==
    /\ Returned
    /\ outcome = "done"
    /\ Len(prev) = 2
    /\ \E k \in 1..2 : k # Locate(prev, Last(log)) /\ cells[k] = prev[k]
    /\ \E k \in 1..2 : /\ k = Locate(prev, Last(log))
                       /\ cells[k].area # prev[k].area
                       /\ cells[k].colour = "red"
                       /\ cells[3].colour = DefaultColour

\* the call with the site pv on the diagram cs locates a cell whose clip by
\* the bisector does not yield two sides
NoTwoSides(cs, pv) ==
    /\ Len(cs) > 0
    /\ HaveMatch(cs, pv)
    /\ LET nc == Locate(cs, pv)
           rd == PolyClip(cs[nc].area, perpendicularBisector(pv, cs[nc].site))
       IN  ~ (Just(rd.a) /\ Just(rd.b))

\* C27: a call whose clip of the located cell does not yield two sides never
\* enters the while loop and returns the cells it was given: no cell for v,
\* no area changed.
Thm_C27_NoClip ==
    (Len(log) > 0 /\ NoTwoSides(prev, Last(log))) =>
        /\ pc = "idle"
        /\ cells = prev
        /\ reclipped = {}
        /\ outcome = "noclip"

\* the call located a cell of another site and the bisector did not cut it
Wit_C27_NoClip ==
    /\ Returned
    /\ NoTwoSides(prev, Last(log))
    /\ Last(log) \notin SitesOf(prev)
    /\ cells = prev

\* the elements of a sequence
Elements(seq) == { seq[i] : i \in 1..Len(seq) }

\* the member set holds each of its pointers once
NoDuplicates(seq) == Cardinality(Elements(seq)) = Len(seq)

\* C28: the option set and the hint set of an options object hold exactly
\* the options and hints that were constructed against it and are still
\* alive, each once; and a call of add for an object the set holds, or of
\* remove for one it does not hold, leaves both sets as they were.
Thm_C28_Registry ==
    /\ \A inst \in Instances :
          /\ Elements(opts[inst]) = { a \in Addresses : optionAt[a] = inst }
          /\ Elements(hints[inst]) = { a \in Addresses : hintAt[a] = inst }
          /\ NoDuplicates(opts[inst])
          /\ NoDuplicates(hints[inst])
    /\ cliLast \in { "add", "remove" } => << opts, hints >> = cliBefore

\* an option and a hint are alive, one per options object, and add was
\* called again for one of them
Wit_C28_Registry ==
    /\ cliLast = "add"
    /\ opts["common"] = << 1 >>
    /\ hints["other"] = << 2 >>
    /\ cliCalls = MaxCliCalls

\* a call of apply has returned
Applied == applyPc = "idle" /\ applyCalls > 0

\* the positions after the first at which args holds "--"
Dashes == { p \in 2..Len(args) : args[p] = "--" }

\* the arguments other than "--" after the position p, in their order
LaterArgs(p) == SelectSeq(SubSeq(args, p + 1, Len(args)), LAMBDA x : x # "--")

\* the last n elements of a sequence
Suffix(seq, n) == SubSeq(seq, Len(seq) - n + 1, Len(seq))

\* C29: when apply returns: with a "--" after the first argument, no handler
\* was invoked for an argument after the first such "--" and the arguments
\* other than "--" after it are the end of remainder, in their order; no
\* element of remainder is "--" or the first argument; remainder holds
\* arguments of this call only; and the value returned is the number of
\* handlers that returned true.
Cex_C29_Apply ==
    Applied =>
        /\ Dashes # {} =>
              LET p == CHOOSE q \in Dashes : \A d \in Dashes : q <= d
              IN  /\ \A i \in 1..Len(invoked) : invoked[i][1] < p
                  /\ Len(remainder) >= Len(LaterArgs(p))
                  /\ Suffix(remainder, Len(LaterArgs(p))) = LaterArgs(p)
        /\ Len(pushedFrom) = Len(remainder)
        /\ \A j \in 1..Len(remainder) :
              /\ remainder[j] # "--"
              /\ pushedFrom[j] # 1
              /\ remainder[j] = args[pushedFrom[j]]
        /\ applyRet = Len(SelectSeq(invoked, LAMBDA e : e[3]))

\* the number of increments from begin() to end(): F * n^k
WalkLength == baseFaces * (functions ^ Len(iteration))

\* C30: counted from begin(), the iterator equals end() after F * n^k calls
\* of operator ++ and not before; until then every index of iteration is
\* below n and no pair of iteration and base position came twice; from then
\* on every further call leaves it equal to end().
Thm_C30_IfsWalk ==
    ifsPc = "live" =>
        /\ increments < WalkLength =>
              /\ ~ AtEnd
              /\ \A i \in 1..Len(iteration) : iteration[i] < functions
              /\ basePosition < baseFaces
              /\ Cardinality(visited) = increments + 1
        /\ increments >= WalkLength =>
              /\ AtEnd
              /\ Cardinality(visited) = WalkLength

\* the walk over two faces, three functions and two iterations is at end(),
\* and operator ++ was called there again
Wit_C30_IfsWalk ==
    /\ AtEnd
    /\ functions = 3
    /\ Len(iteration) = 2
    /\ baseFaces = 2
    /\ increments = 2 * 9 + MaxEndIncrements

====
